---- MODULE Spec2Model ----
(***************************************************************************)
(* Model of the witness "run" command: runRun and storeInArchivist         *)
(* (cmd/run.go) together with the options they read (options/run.go).      *)
(*                                                                         *)
(* A byte slice of signedBytes is represented, as in Go, by the half-open  *)
(* index range <<lo, hi>> of the backing array it views; the serialized    *)
(* envelope itself is the range <<0, len(signedBytes)>>.                    *)
(* An error value is the sequence of its message parts, outermost first:   *)
(* fmt.Errorf("m: %w", e) is <<"m">> \o e, and nil is <<>>.                 *)
(***************************************************************************)
EXTENDS Integers, Sequences, FiniteSets, TLC

\* ------------------------------------------------------------------ bounds
MaxSources == 3
MaxChunks == 2

\* --------------------------------------------------------------- constants
chunkSize == 64 * 1024

\* Payload lengths storeInArchivist is tried on: around every frame boundary.
Sizes ==
  {n \in {k * chunkSize + d : k \in 0..MaxChunks, d \in {-1, 0, 1}} : n >= 0} \cup {11}

\* Lengths json.Marshal can return for the envelope: no JSON object is shorter
\* than the two bytes of "{}".
EnvelopeSizes == {n \in Sizes : n >= 2}

Sources == 1..MaxSources

VARIABLES
  keySources,   \* ro.KeyOptions: per source "unset", "ok" (constructs) or "bad"
  rekorServer,  \* ro.RekorServer
  archivist,    \* ro.ArchivistOptions: [Enable, Server]
  ctx,          \* the context runRun is given: "live" or "cancelled"
  pc,           \* position in runRun / storeInArchivist
  signers,      \* signers returned by loadSigners
  errors,       \* errors returned by loadSigners
  signer,       \* signers[0], 0 while unset
  out,          \* output sink: [state, closes, content]
  deferred,     \* TRUE once "defer out.Close()" is registered
  runCalls,     \* signers handed to witness.Run, in call order
  signedBytes,  \* len(signedBytes); -1 before json.Marshal returned
  rekorReqs,    \* payloads handed to rc.StoreArtifact
  stream,       \* "unset", "nil" (client.Store failed) or "open"
  curr,         \* loop variable of storeInArchivist
  frames,       \* frames accepted by stream.Send, in send order
  resp,         \* gitoid carried by the far end's response, "" while none
  gitoid,       \* value returned by storeInArchivist
  logged,       \* messages given to log.Error / log.Infof
  trace,        \* calls made so far: [op, ok]
  result,       \* "running", "ok", "error" or "panic"
  err           \* error returned by runRun

cfgVars == <<keySources, rekorServer, archivist>>
upVars == <<stream, curr, frames, resp, gitoid>>
vars == <<keySources, rekorServer, archivist, ctx, pc, signers, errors, signer, out,
          deferred, runCalls, signedBytes, rekorReqs, stream, curr, frames,
          resp, gitoid, logged, trace, result, err>>

\* ------------------------------------------------------------------ errors
nil == <<>>
Errorf(msg) == <<msg>>
Wrap(msg, e) == <<msg>> \o e

SourceErr(i) == <<"signer source " \o ToString(i)>>
ErrRun == <<"witness.Run error">>
ErrIO == <<"io error">>
ErrJSON == <<"json error">>
ErrKey == <<"verifier error">>
ErrNet == <<"transport error">>

Gitoids == {"gitoid:blob:sha256:aa", "gitoid:blob:sha256:bb"}

Ev(op, ok) == [op |-> op, ok |-> ok]

NetOps == {"rc.StoreArtifact", "grpc.Dial", "client.Store", "stream.Send",
           "stream.CloseAndRecv"}

\* ----------------------------------------------------------------- helpers
\* loadSigners: try every configured source, collect signers and failures.
loadSigners(ks) ==
  LET ids == [i \in Sources |-> i]
      IsOk(i) == ks[i] = "ok"
      IsBad(i) == ks[i] = "bad"
      bad == SelectSeq(ids, IsBad)
  IN  [signers |-> SelectSeq(ids, IsOk),
       errors |-> [k \in 1..Len(bad) |-> SourceErr(bad[k])]]

\* the deferred close left out
RunDeferred_Skipped(o) == o

\* defer out.Close()
RunDeferred(o) == [o EXCEPT !.state = "closed", !.closes = @ + 1]

\* a return statement of runRun: deferred calls run, the error is handed back
Return(e) ==
  /\ pc' = "done"
  /\ err' = e
  /\ result' = IF e = nil THEN "ok" ELSE "error"
  /\ out' = IF deferred THEN RunDeferred(out) ELSE out

\* a run-time panic unwinding runRun: deferred calls run, nothing is returned
Panic ==
  /\ pc' = "done"
  /\ err' = err
  /\ result' = "panic"
  /\ out' = IF deferred THEN RunDeferred(out) ELSE out

\* ------------------------------------------------------------------- Init
Init ==
  /\ keySources \in [Sources -> {"unset", "ok", "bad"}]
  /\ rekorServer \in {"", "https://rekor"}
  /\ archivist \in [Enable : BOOLEAN, Server : {"", "archivist:8080"}]
  /\ ctx = "live"
  /\ pc = "loadSigners"
  /\ signers = <<>>
  /\ errors = <<>>
  /\ signer = 0
  /\ out = [state |-> "none", closes |-> 0, content |-> <<>>]
  /\ deferred = FALSE
  /\ runCalls = <<>>
  /\ signedBytes = -1
  /\ rekorReqs = <<>>
  /\ stream = "unset"
  /\ curr = 0
  /\ frames = <<>>
  /\ resp = ""
  /\ gitoid = ""
  /\ logged = <<>>
  /\ trace = <<>>
  /\ result = "running"
  /\ err = nil

\* ---------------------------------------------------------------- actions
\* the check for more than one signer left out
SignerVerdict_NoAmbiguityCheck(ss, es) ==
  IF Len(es) > 0 THEN Errorf("failed to load signers")
  ELSE IF Len(ss) = 0 THEN Errorf("no signers found")
  ELSE nil

\* runRun lines 103-121
SignerVerdict(ss, es) ==
  IF Len(es) > 0 THEN Errorf("failed to load signers")
  ELSE IF Len(ss) > 1 THEN Errorf("only one signer is supported")
  ELSE IF Len(ss) = 0 THEN Errorf("no signers found")
  ELSE nil

\* only the first construction error reported
SignerLog_FirstOnly(ss, es) ==
  IF Len(es) > 0 THEN <<es[1]>>
  ELSE IF Len(ss) > 1 THEN <<Errorf("only one signer is supported")>>
  ELSE IF Len(ss) = 0 THEN <<Errorf("no signers found")>>
  ELSE <<>>

SignerLog(ss, es) ==
  IF Len(es) > 0 THEN es
  ELSE IF Len(ss) > 1 THEN <<Errorf("only one signer is supported")>>
  ELSE IF Len(ss) = 0 THEN <<Errorf("no signers found")>>
  ELSE <<>>

ResolveSigner ==
  /\ pc = "loadSigners"
  /\ LET r == loadSigners(keySources)
         v == SignerVerdict(r.signers, r.errors)
     IN  /\ signers' = r.signers
         /\ errors' = r.errors
         /\ logged' = logged \o SignerLog(r.signers, r.errors)
         /\ trace' = Append(trace, Ev("loadSigners", v = nil))
         /\ IF v = nil
              THEN /\ signer' = r.signers[1]
                   /\ pc' = "loadOutfile"
                   /\ UNCHANGED <<out, result, err>>
              ELSE /\ signer' = signer
                   /\ Return(v)
  /\ UNCHANGED <<cfgVars, ctx, deferred, runCalls, signedBytes, rekorReqs, upVars>>

\* loadOutfile: open the file at the path, or standard output when it is empty
loadOutfile(o, ok) == IF ok THEN [o EXCEPT !.state = "open"] ELSE o

\* the error of loadOutfile not looked at
OpenFailed_Ignored == pc' = "Run" /\ UNCHANGED <<out, result, err>>

\* runRun lines 124-126: where runRun goes when loadOutfile failed
OpenFailed == Return(Wrap("failed to open out file", ErrIO))

\* runRun lines 123-128
OpenOutfile ==
  /\ pc = "loadOutfile"
  /\ \E ok \in BOOLEAN :
       /\ trace' = Append(trace, Ev("loadOutfile", ok))
       /\ IF ok
            THEN /\ out' = loadOutfile(out, TRUE)
                 /\ deferred' = TRUE
                 /\ pc' = "Run"
                 /\ UNCHANGED <<result, err>>
            ELSE /\ deferred' = deferred
                 /\ OpenFailed
  /\ UNCHANGED <<cfgVars, ctx, signers, errors, signer, runCalls, signedBytes,
                 rekorReqs, upVars, logged>>

\* the error of witness.Run wrapped like the others
RunFailure_Wrapped(e) == Wrap("failed to run", e)

\* runRun lines 130-141: witness.Run, its error handed back as it is
RunFailure(e) == e

Execute ==
  /\ pc = "Run"
  /\ runCalls' = Append(runCalls, signer)
  /\ \E ok \in BOOLEAN :
       /\ trace' = Append(trace, Ev("witness.Run", ok))
       /\ IF ok
            THEN /\ pc' = "Marshal"
                 /\ UNCHANGED <<out, result, err>>
            ELSE Return(RunFailure(ErrRun))
  /\ UNCHANGED <<cfgVars, ctx, signers, errors, signer, deferred, signedBytes,
                 rekorReqs, upVars, logged>>

\* runRun lines 143-146
Serialize ==
  /\ pc = "Marshal"
  /\ \/ \E n \in EnvelopeSizes :
          /\ signedBytes' = n
          /\ trace' = Append(trace, Ev("json.Marshal", TRUE))
          /\ pc' = "Write"
          /\ UNCHANGED <<out, result, err>>
     \/ /\ signedBytes' = signedBytes
        /\ trace' = Append(trace, Ev("json.Marshal", FALSE))
        /\ Return(Wrap("failed to marshal envelope", ErrJSON))
  /\ UNCHANGED <<cfgVars, ctx, signers, errors, signer, deferred, runCalls,
                 rekorReqs, upVars, logged>>

\* the upload entered whatever the endpoint
AfterLog_Always == "Dial"

\* runRun lines 152-153 and 177: which step follows the write, and the log step
AfterLog == IF archivist.Server # "" THEN "Dial" ELSE "return"

\* the log step entered whatever the endpoint
AfterWrite_Always == "Verifier"

\* the upload made first, the log step left out when an upload is configured
AfterWrite_UploadFirst ==
  IF archivist.Server # "" THEN "Dial"
  ELSE IF rekorServer # "" THEN "Verifier" ELSE "return"

AfterWrite == IF rekorServer # "" THEN "Verifier" ELSE AfterLog

\* the sink closed as soon as it was written to
Write_ThenClose(o, n) ==
  [o EXCEPT !.content = Append(@, <<0, n>>), !.state = "closed", !.closes = @ + 1]

\* out.Write(p): the sink takes the first n bytes of p
Write(o, n) == [o EXCEPT !.content = Append(@, <<0, n>>)]

\* runRun lines 148-150
WriteOutput ==
  /\ pc = "Write"
  /\ \/ /\ trace' = Append(trace, Ev("out.Write", TRUE))
        /\ out' = Write(out, signedBytes)
        /\ pc' = AfterWrite
        /\ UNCHANGED <<result, err>>
     \/ \E n \in {0, signedBytes \div 2} :
          /\ trace' = Append(trace, Ev("out.Write", FALSE))
          /\ pc' = "done"
          /\ err' = Wrap("failed to write envelope to out file", ErrIO)
          /\ result' = "error"
          /\ out' = RunDeferred(Write(out, n))
  /\ UNCHANGED <<cfgVars, ctx, signers, errors, signer, deferred, runCalls,
                 signedBytes, rekorReqs, upVars, logged>>

\* runRun lines 154-157
GetVerifier ==
  /\ pc = "Verifier"
  /\ \E ok \in BOOLEAN :
       /\ trace' = Append(trace, Ev("signer.Verifier", ok))
       /\ IF ok
            THEN /\ pc' = "Bytes"
                 /\ UNCHANGED <<out, result, err>>
            ELSE Return(Wrap("failed to get verifier from signer", ErrKey))
  /\ UNCHANGED <<cfgVars, ctx, signers, errors, signer, deferred, runCalls,
                 signedBytes, rekorReqs, upVars, logged>>

\* runRun lines 159-162
VerifierBytes ==
  /\ pc = "Bytes"
  /\ \E ok \in BOOLEAN :
       /\ trace' = Append(trace, Ev("verifier.Bytes", ok))
       /\ IF ok
            THEN /\ pc' = "rekorNew"
                 /\ UNCHANGED <<out, result, err>>
            ELSE Return(Wrap("failed to get bytes from verifier", ErrKey))
  /\ UNCHANGED <<cfgVars, ctx, signers, errors, signer, deferred, runCalls,
                 signedBytes, rekorReqs, upVars, logged>>

\* runRun lines 164-167
RekorNew ==
  /\ pc = "rekorNew"
  /\ \E ok \in BOOLEAN :
       /\ trace' = Append(trace, Ev("rekor.New", ok))
       /\ IF ok
            THEN /\ pc' = "StoreArtifact"
                 /\ UNCHANGED <<out, result, err>>
            ELSE Return(Wrap("failed to get initialize Rekor client", ErrNet))
  /\ UNCHANGED <<cfgVars, ctx, signers, errors, signer, deferred, runCalls,
                 signedBytes, rekorReqs, upVars, logged>>

\* only the first frame's worth of the envelope submitted
RekorPayload_Truncated(n) == <<0, IF n < chunkSize THEN n \div 2 ELSE chunkSize>>

\* runRun line 169: the slice handed to rc.StoreArtifact, signedBytes as a whole
RekorPayload(n) == <<0, n>>

\* the failure of rc.StoreArtifact logged, the run going on to the next step
RekorFailed_Continue == pc' = AfterLog /\ UNCHANGED <<out, result, err>>

\* runRun lines 169-175: where runRun goes when rc.StoreArtifact failed
RekorFailed ==
  Return(Wrap("failed to store artifact in rekor", ErrNet))

RekorStore ==
  /\ pc = "StoreArtifact"
  /\ \E ok \in BOOLEAN :
       /\ trace' = Append(trace, Ev("rc.StoreArtifact", ok))
       /\ IF ok
            THEN /\ rekorReqs' = Append(rekorReqs, RekorPayload(signedBytes))
                 /\ logged' = Append(logged, <<"Rekor entry added">>)
                 /\ pc' = AfterLog
                 /\ UNCHANGED <<out, result, err>>
            ELSE /\ UNCHANGED <<rekorReqs, logged>>
                 /\ RekorFailed
  /\ UNCHANGED <<cfgVars, ctx, signers, errors, signer, deferred, runCalls,
                 signedBytes, upVars>>

\* runRun lines 178-179: storeInArchivist returned ("", e)
StoreFailed(e) == Return(Wrap("failed to store artifact in archivist", e))

\* storeInArchivist lines 189-192
Dial ==
  /\ pc = "Dial"
  /\ \E ok \in BOOLEAN :
       /\ trace' = Append(trace, Ev("grpc.Dial", ok))
       /\ IF ok
            THEN /\ pc' = "Store"
                 /\ UNCHANGED <<out, result, err>>
            ELSE StoreFailed(ErrNet)
  /\ UNCHANGED <<cfgVars, ctx, signers, errors, signer, deferred, runCalls,
                 signedBytes, rekorReqs, upVars, logged>>

\* the loop body run once before the condition is looked at
LoopNext_AtLeastOnce(c, size) == IF c < size \/ c = 0 THEN "Send" ELSE "CloseAndRecv"

\* the loop running while curr <= size
LoopNext_Inclusive(c, size) == IF c <= size THEN "Send" ELSE "CloseAndRecv"

\* storeInArchivist line 198: the loop condition
LoopNext(c, size) == IF c < size THEN "Send" ELSE "CloseAndRecv"

\* Outcomes of a call on the stream client.Store(ctx) opens (lines 197, 207,
\* 212): it can fail at any time, and cannot succeed once ctx is cancelled.
StreamOutcomes(c) == IF c = "cancelled" THEN {FALSE} ELSE BOOLEAN

\* storeInArchivist lines 194-198: client.Store; its error is not looked at
OpenStream ==
  /\ pc = "Store"
  /\ \E ok \in StreamOutcomes(ctx) :
       /\ trace' = Append(trace, Ev("client.Store", ok))
       /\ stream' = IF ok THEN "open" ELSE "nil"
  /\ curr' = 0
  /\ pc' = LoopNext(0, signedBytes)
  /\ UNCHANGED <<cfgVars, ctx, signers, errors, signer, out, deferred, runCalls,
                 signedBytes, rekorReqs, frames, resp, gitoid, logged, result,
                 err>>

\* storeInArchivist lines 199-204: the slice signedBytes[lo:hi] of one frame
ChunkEnd(c, size) == IF c + chunkSize >= size THEN size ELSE c + chunkSize

\* the loop advancing one byte short of a frame
NextCurr_Overlap(c) == c + chunkSize - 1

\* storeInArchivist line 198: the loop increment
NextCurr(c) == c + chunkSize

\* the failed send skipped, the loop left for the close
SendFailed_Ignored == pc' = "CloseAndRecv" /\ UNCHANGED <<out, result, err>>

\* storeInArchivist lines 207-209: stream.Send failed
SendFailed == StoreFailed(ErrNet)

\* storeInArchivist lines 198-210: one iteration of the loop
SendChunk ==
  /\ pc = "Send"
  /\ IF stream = "nil"
       THEN /\ Panic
            /\ UNCHANGED <<trace, frames, curr>>
       ELSE \E ok \in StreamOutcomes(ctx) :
              /\ trace' = Append(trace, Ev("stream.Send", ok))
              /\ IF ok
                   THEN /\ frames' = Append(frames, <<curr, ChunkEnd(curr, signedBytes)>>)
                        /\ curr' = NextCurr(curr)
                        /\ pc' = LoopNext(NextCurr(curr), signedBytes)
                        /\ UNCHANGED <<out, result, err>>
                   ELSE /\ UNCHANGED <<frames, curr>>
                        /\ SendFailed
  /\ UNCHANGED <<cfgVars, ctx, signers, errors, signer, deferred, runCalls,
                 signedBytes, rekorReqs, stream, resp, gitoid, logged>>

\* the identifier of the response dropped
GetGitoid_Empty(r) == ""

\* storeInArchivist line 217: resp.GetGitoid()
GetGitoid(r) == r

\* storeInArchivist lines 212-217 and runRun lines 178-182
CloseAndRecv ==
  /\ pc = "CloseAndRecv"
  /\ IF stream = "nil"
       THEN /\ Panic
            /\ UNCHANGED <<trace, resp, gitoid, logged>>
       ELSE \/ \E g \in Gitoids :
                 /\ TRUE \in StreamOutcomes(ctx)
                 /\ trace' = Append(trace, Ev("stream.CloseAndRecv", TRUE))
                 /\ resp' = g
                 /\ gitoid' = GetGitoid(g)
                 /\ logged' = Append(logged, <<"Stored in archivist as", GetGitoid(g)>>)
                 /\ pc' = "return"
                 /\ UNCHANGED <<out, result, err>>
            \/ /\ trace' = Append(trace, Ev("stream.CloseAndRecv", FALSE))
               /\ UNCHANGED <<resp, gitoid, logged>>
               /\ StoreFailed(ErrNet)
  /\ UNCHANGED <<cfgVars, ctx, signers, errors, signer, deferred, runCalls,
                 signedBytes, rekorReqs, stream, curr, frames>>

\* runRun line 185
ReturnNil ==
  /\ pc = "return"
  /\ Return(nil)
  /\ UNCHANGED <<cfgVars, ctx, signers, errors, signer, deferred, runCalls,
                 signedBytes, rekorReqs, upVars, logged, trace>>

\* the caller's cancellation signal (cmd.Context(), line 93) fires
Cancel ==
  /\ pc # "done"
  /\ ctx = "live"
  /\ ctx' = "cancelled"
  /\ trace' = Append(trace, Ev("ctx.Done", TRUE))
  /\ UNCHANGED <<cfgVars, pc, signers, errors, signer, out, deferred, runCalls,
                 signedBytes, rekorReqs, upVars, logged, result, err>>

Next ==
  \/ Cancel
  \/ ResolveSigner
  \/ OpenOutfile
  \/ Execute
  \/ Serialize
  \/ WriteOutput
  \/ GetVerifier
  \/ VerifierBytes
  \/ RekorNew
  \/ RekorStore
  \/ Dial
  \/ OpenStream
  \/ SendChunk
  \/ CloseAndRecv
  \/ ReturnNil

Spec == Init /\ [][Next]_vars

\* storeInArchivist on its own: called, as runRun line 178 calls it, after the
\* envelope was written, with a payload of any length, the empty one included.
InitUpload ==
  /\ keySources = [i \in Sources |-> IF i = 1 THEN "ok" ELSE "unset"]
  /\ rekorServer = ""
  /\ archivist \in [Enable : BOOLEAN, Server : {"archivist:8080"}]
  /\ ctx = "live"
  /\ pc = "Dial"
  /\ signers = <<1>>
  /\ errors = <<>>
  /\ signer = 1
  /\ signedBytes \in Sizes
  /\ out = [state |-> "open", closes |-> 0, content |-> <<<<0, signedBytes>>>>]
  /\ deferred = TRUE
  /\ runCalls = <<1>>
  /\ rekorReqs = <<>>
  /\ stream = "unset"
  /\ curr = 0
  /\ frames = <<>>
  /\ resp = ""
  /\ gitoid = ""
  /\ logged = <<>>
  /\ trace = <<Ev("loadSigners", TRUE), Ev("loadOutfile", TRUE),
               Ev("witness.Run", TRUE), Ev("json.Marshal", TRUE),
               Ev("out.Write", TRUE)>>
  /\ result = "running"
  /\ err = nil

NextUpload ==
  \/ Cancel
  \/ Dial
  \/ OpenStream
  \/ SendChunk
  \/ CloseAndRecv
  \/ ReturnNil

SpecUpload == InitUpload /\ [][NextUpload]_vars

\* ------------------------------------------------------------- properties
Called(op) == \E i \in DOMAIN trace : trace[i].op = op
Succeeded(op) == \E i \in DOMAIN trace : trace[i] = Ev(op, TRUE)
Failed(op) == \E i \in DOMAIN trace : trace[i] = Ev(op, FALSE)

NoNetOp == \A i \in DOMAIN trace : trace[i].op \notin NetOps

ErrNoSigner == Errorf("no signers found")
ErrAmbiguous == Errorf("only one signer is supported")
ErrLoad == Errorf("failed to load signers")

Resolved == pc # "loadSigners"
FailedWith(e) == pc = "done" /\ result = "error" /\ err = e
ResolvedTo(s) ==
  /\ Succeeded("loadSigners")
  /\ signer = s
  /\ \A i \in DOMAIN runCalls : runCalls[i] = s

\* C1 as stated: the number of constructed signers alone decides the outcome:
\* 0 gives the no-signer error, 2 or more the ambiguous-signer error, 1 succeeds
\* with that signer, the one handed to witness.Run.
C1_CountAloneDecides ==
  Resolved =>
    /\ Len(signers) = 0 => FailedWith(ErrNoSigner)
    /\ Len(signers) >= 2 => FailedWith(ErrAmbiguous)
    /\ Len(signers) = 1 => ResolvedTo(signers[1])

\* C1 amended: if any source failed to construct, the run fails with
\* "failed to load signers"; otherwise 0 signers give the no-signer error, 2 or
\* more the ambiguous-signer error, and exactly 1 succeeds with that signer,
\* which is the one handed to witness.Run.
C1_SignerResolution ==
  Resolved =>
    IF Len(errors) > 0
      THEN FailedWith(ErrLoad) /\ runCalls = <<>>
      ELSE /\ Len(signers) = 0 => FailedWith(ErrNoSigner) /\ runCalls = <<>>
           /\ Len(signers) >= 2 => FailedWith(ErrAmbiguous) /\ runCalls = <<>>
           /\ Len(signers) = 1 => ResolvedTo(signers[1])

C1_Witness ==
  /\ Len(signers) = 1
  /\ Len(errors) = 0
  /\ runCalls = <<signers[1]>>

AllErrorsLogged ==
  /\ Len(logged) >= Len(errors)
  /\ \A k \in DOMAIN errors : logged[k] = errors[k]

\* C2 as stated: with some sources failing and exactly one signer constructed,
\* resolution succeeds with that signer and every construction error is reported.
C2_SurvivorResolves ==
  (Resolved /\ Len(errors) > 0 /\ Len(signers) = 1) =>
    /\ ResolvedTo(signers[1])
    /\ pc # "done"
    /\ AllErrorsLogged

\* C2 amended: when some sources fail to construct, every construction error is
\* reported and the run fails with "failed to load signers", also when exactly
\* one signer was constructed; witness.Run is not called and no sink is opened.
C2_AnyLoadErrorFails ==
  (Resolved /\ Len(errors) > 0) =>
    /\ AllErrorsLogged
    /\ Len(logged) = Len(errors)
    /\ FailedWith(ErrLoad)
    /\ signer = 0
    /\ runCalls = <<>>
    /\ out.state = "none"

C2_Witness ==
  /\ pc = "done"
  /\ Len(errors) = 2
  /\ Len(signers) = 1
  /\ Len(logged) = 2

NotStarted ==
  /\ runCalls = <<>>
  /\ ~Called("witness.Run")
  /\ NoNetOp
  /\ rekorReqs = <<>>
  /\ frames = <<>>
  /\ stream = "unset"

\* C3: zero signers, more than one signer or an output path that cannot be
\* opened end the run in failure with witness.Run never called and no network
\* operation issued; for the two signer errors the sink was never opened either.
C3_ConfigErrorsFirst ==
  /\ (Resolved /\ Len(signers) # 1) =>
       /\ pc = "done" /\ result = "error"
       /\ NotStarted
       /\ ~Called("loadOutfile")
       /\ out = [state |-> "none", closes |-> 0, content |-> <<>>]
  /\ Failed("loadOutfile") =>
       /\ FailedWith(Wrap("failed to open out file", ErrIO))
       /\ NotStarted
       /\ out.content = <<>>

C3_Witness ==
  /\ Failed("loadOutfile")
  /\ pc = "done"
  /\ rekorServer # ""
  /\ archivist.Server # ""

\* ---- chunking
Min(a, b) == IF a < b THEN a ELSE b
CeilDiv(a, b) == (a + b - 1) \div b
FrameLen(f) == f[2] - f[1]

\* The frames, concatenated in order, are exactly the bytes [0, L) of the
\* payload: the first starts at 0, each next one starts where the one before
\* ended, the last ends at L. A gap, an overlap, a reordering or a duplicate of
\* a non-empty frame breaks the chain.
Tiles(fs, L) ==
  /\ \A k \in DOMAIN fs : fs[k][1] <= fs[k][2]
  /\ IF Len(fs) = 0
       THEN L = 0
       ELSE /\ fs[1][1] = 0
            /\ fs[Len(fs)][2] = L
            /\ \A k \in 1..(Len(fs) - 1) : fs[k][2] = fs[k + 1][1]

\* the loop of storeInArchivist ran to its end on an open stream
AllSent ==
  /\ stream = "open"
  /\ ~Failed("stream.Send")
  /\ pc = "CloseAndRecv" \/ Called("stream.CloseAndRecv")

\* C4: when every send succeeded, the frames handed to stream.Send, concatenated
\* in send order, are the payload: no gap, no overlap, no reordering, no
\* duplicate. While sending, the frames sent so far are a prefix of it.
C4_ChunkRoundTrip ==
  /\ AllSent => Tiles(frames, signedBytes)
  /\ (stream = "open" /\ pc = "Send") => Tiles(frames, curr) /\ curr < signedBytes

C4_Witness ==
  /\ AllSent
  /\ signedBytes = 2 * chunkSize + 1
  /\ frames = <<<<0, chunkSize>>, <<chunkSize, 2 * chunkSize>>,
                <<2 * chunkSize, 2 * chunkSize + 1>>>>

\* C5: when every send succeeded exactly ceil(L/65536) frames were sent; each is
\* non-empty and at most 65536 bytes, all but the last are 65536 bytes, and the
\* last holds L mod 65536 bytes, or 65536 when L is a positive multiple.
C5_FrameCountAndSizes ==
  AllSent =>
    /\ Len(frames) = CeilDiv(signedBytes, chunkSize)
    /\ \A k \in DOMAIN frames :
         /\ FrameLen(frames[k]) > 0
         /\ FrameLen(frames[k]) <= chunkSize
         /\ k < Len(frames) => FrameLen(frames[k]) = chunkSize
    /\ Len(frames) > 0 =>
         FrameLen(frames[Len(frames)]) =
           IF signedBytes % chunkSize = 0 THEN chunkSize ELSE signedBytes % chunkSize

C5_Witness ==
  /\ AllSent
  /\ signedBytes = 2 * chunkSize
  /\ Len(frames) = 2

\* ---- the written envelope
Envelope == <<0, signedBytes>>

LocalStepsOk ==
  /\ Succeeded("loadSigners")
  /\ Succeeded("loadOutfile")
  /\ Succeeded("witness.Run")
  /\ Succeeded("json.Marshal")
  /\ Succeeded("out.Write")

\* C6: with no transparency-log endpoint and no artifact-store endpoint, when
\* signer resolution, sink opening, witness.Run, serialization and the write all
\* succeeded, the run ends in success and the sink holds the serialized envelope,
\* written once and nothing else.
C6_WriteWithoutPublishing ==
  (rekorServer = "" /\ archivist.Server = "" /\ LocalStepsOk) =>
    /\ out.content = <<Envelope>>
    /\ NoNetOp
    /\ pc \in {"return", "done"}
    /\ pc = "done" => result = "ok" /\ err = nil

C6_Witness ==
  /\ rekorServer = ""
  /\ archivist.Server = ""
  /\ pc = "done"
  /\ result = "ok"
  /\ signedBytes = 11
  /\ out.content = <<<<0, 11>>>>

PublishOps == {"signer.Verifier", "verifier.Bytes", "rekor.New",
               "rc.StoreArtifact", "grpc.Dial", "client.Store", "stream.Send",
               "stream.CloseAndRecv"}
LogOps == {"signer.Verifier", "verifier.Bytes", "rekor.New", "rc.StoreArtifact"}
StoreOps == {"grpc.Dial", "client.Store", "stream.Send", "stream.CloseAndRecv"}

PublishFailed == \E i \in DOMAIN trace : trace[i].op \in PublishOps /\ ~trace[i].ok
LogFailed == \E i \in DOMAIN trace : trace[i].op \in LogOps /\ ~trace[i].ok
StoreAttempted == \E i \in DOMAIN trace : trace[i].op \in StoreOps

\* C7: whenever a publishing step was attempted and failed, the run ends in
\* failure (runRun returns an error) and the sink still holds exactly the
\* serialized envelope written before the failing step.
C7_PublishFailureKeepsOutput ==
  (PublishFailed /\ pc = "done") =>
    /\ result = "error"
    /\ err # nil
    /\ out.content = <<Envelope>>

\* C8 as stated: when both endpoints are configured and the log step failed, the
\* artifact-store upload is still attempted before the run ends.
C8_UploadAfterLogFailure ==
  (rekorServer # "" /\ archivist.Server # "" /\ LogFailed /\ pc = "done") =>
    StoreAttempted

LogErrors ==
  {Wrap("failed to get verifier from signer", ErrKey),
   Wrap("failed to get bytes from verifier", ErrKey),
   Wrap("failed to get initialize Rekor client", ErrNet),
   Wrap("failed to store artifact in rekor", ErrNet)}

\* C8 amended: the publishing steps are a short-circuiting chain: when the log
\* step fails the run ends at once in failure with that step's error and the
\* artifact-store upload is not attempted; the upload is attempted only after
\* the log step succeeded or was skipped because no log endpoint is configured.
C8_LogFailureShortCircuits ==
  /\ LogFailed =>
       /\ pc = "done" /\ result = "error"
       /\ err \in LogErrors
       /\ ~StoreAttempted
       /\ stream = "unset" /\ frames = <<>>
  /\ StoreAttempted =>
       /\ Succeeded("out.Write")
       /\ rekorServer = "" \/ Succeeded("rc.StoreArtifact")

C8_Witness ==
  /\ rekorServer # ""
  /\ archivist.Server # ""
  /\ Failed("rc.StoreArtifact")
  /\ pc = "done"

\* C9: if witness.Run returns an error the run ends in failure with that same
\* error, not wrapped; nothing was written to the sink and neither the log
\* submission nor the artifact-store upload was attempted.
C9_CollaboratorFailure ==
  Failed("witness.Run") =>
    /\ FailedWith(ErrRun)
    /\ out.content = <<>>
    /\ ~Called("json.Marshal") /\ ~Called("out.Write")
    /\ \A i \in DOMAIN trace : trace[i].op \notin PublishOps
    /\ rekorReqs = <<>> /\ frames = <<>> /\ stream = "unset"

C9_Witness ==
  /\ Failed("witness.Run")
  /\ pc = "done"
  /\ rekorServer # ""
  /\ archivist.Server # ""
  /\ out.state = "closed"

\* C10: in every terminal state of a run whose sink was opened the sink has been
\* closed exactly once; while the run is under way it has not been closed.
C10_SinkReleased ==
  /\ (pc = "done" /\ Succeeded("loadOutfile")) =>
       out.state = "closed" /\ out.closes = 1
  /\ (pc # "done" /\ Succeeded("loadOutfile")) =>
       out.state = "open" /\ out.closes = 0
  /\ ~Succeeded("loadOutfile") => out.state = "none" /\ out.closes = 0

C10_Witness ==
  /\ pc = "done"
  /\ Failed("stream.CloseAndRecv")
  /\ out.state = "closed"
  /\ out.closes = 1

\* ---- the upload session
Count(op) == Cardinality({i \in DOMAIN trace : trace[i].op = op})
CountOk(op) == Cardinality({i \in DOMAIN trace : trace[i] = Ev(op, TRUE)})

\* the calls made, without the cancellation signal
Steps ==
  LET IsCall(e) == e.op # "ctx.Done"
  IN  SelectSeq(trace, IsCall)

ErrSend == Wrap("failed to store artifact in archivist", ErrNet)

\* C11: if a send fails the upload fails at once with the transmission error:
\* the failed send is the last call made, it is the only failed send, the frames
\* accepted before it were each sent once, close-and-receive is not performed
\* and no identifier is returned.
C11_SendFailureAborts ==
  Failed("stream.Send") =>
    /\ FailedWith(ErrSend)
    /\ Steps[Len(Steps)] = Ev("stream.Send", FALSE)
    /\ Count("stream.Send") = Len(frames) + 1
    /\ Tiles(frames, curr)
    /\ curr < signedBytes
    /\ ~Called("stream.CloseAndRecv")
    /\ gitoid = "" /\ resp = ""

C11_Witness ==
  /\ Failed("stream.Send")
  /\ signedBytes = 2 * chunkSize + 1
  /\ Len(frames) = 1
  /\ pc = "done"

\* C12: an empty payload still opens the session, sends no frame, performs
\* close-and-receive and returns the identifier of the response; a run on it
\* fails only when a call on the connection or the stream failed.
C12_EmptyPayload ==
  signedBytes = 0 =>
    /\ frames = <<>> /\ ~Called("stream.Send") /\ pc # "Send"
    /\ Succeeded("grpc.Dial") => pc = "Store" \/ Called("client.Store")
    /\ Succeeded("client.Store") => pc = "CloseAndRecv" \/ Called("stream.CloseAndRecv")
    /\ Succeeded("stream.CloseAndRecv") =>
         /\ gitoid = resp /\ gitoid \in Gitoids
         /\ pc \in {"return", "done"}
         /\ pc = "done" => result = "ok" /\ err = nil
    /\ result \in {"error", "panic"} =>
         \/ Failed("grpc.Dial")
         \/ Failed("client.Store")
         \/ Failed("stream.CloseAndRecv")

C12_Witness ==
  /\ signedBytes = 0
  /\ Succeeded("client.Store")
  /\ Succeeded("stream.CloseAndRecv")
  /\ frames = <<>>
  /\ pc = "done"
  /\ result = "ok"

\* ---- cancellation
CancelledAt == CHOOSE i \in DOMAIN trace : trace[i].op = "ctx.Done"

Cancellable == {"rc.StoreArtifact", "client.Store", "stream.Send",
                "stream.CloseAndRecv"}

\* C13: once the cancellation signal has fired, neither the log submission nor
\* a call on the upload stream runs to completion: each ends in failure, and no
\* frame is sent any more.
C13_CancellationAborts ==
  ctx = "cancelled" =>
    \A i \in DOMAIN trace :
      (i > CancelledAt /\ trace[i].op \in Cancellable) => ~trace[i].ok

\* ---- order of the steps
\* what the call made just before a call must have been
ComesAfter(op) ==
  CASE op = "loadOutfile" -> {Ev("loadSigners", TRUE)}
    [] op = "witness.Run" -> {Ev("loadOutfile", TRUE)}
    [] op = "json.Marshal" -> {Ev("witness.Run", TRUE)}
    [] op = "out.Write" -> {Ev("json.Marshal", TRUE)}
    [] op = "signer.Verifier" -> {Ev("out.Write", TRUE)}
    [] op = "verifier.Bytes" -> {Ev("signer.Verifier", TRUE)}
    [] op = "rekor.New" -> {Ev("verifier.Bytes", TRUE)}
    [] op = "rc.StoreArtifact" -> {Ev("rekor.New", TRUE)}
    [] op = "grpc.Dial" -> IF rekorServer = "" THEN {Ev("out.Write", TRUE)}
                           ELSE {Ev("rc.StoreArtifact", TRUE)}
    [] op = "client.Store" -> {Ev("grpc.Dial", TRUE)}
    [] op = "stream.Send" -> {Ev("client.Store", TRUE), Ev("stream.Send", TRUE)}
    [] op = "stream.CloseAndRecv" -> {Ev("client.Store", TRUE), Ev("stream.Send", TRUE)}
    [] OTHER -> {}

OncePerRun == {"loadSigners", "loadOutfile", "witness.Run", "json.Marshal",
               "out.Write", "signer.Verifier", "verifier.Bytes", "rekor.New",
               "rc.StoreArtifact", "grpc.Dial", "client.Store",
               "stream.CloseAndRecv"}

\* C14: the steps of a run are made one after the other in a fixed order: signer
\* resolution once and first, witness.Run at most once and after a signer was
\* resolved, serialization after witness.Run succeeded, the write after
\* serialization succeeded, the log submission after the write succeeded, the
\* upload after the log step finished; each call starts when the one before it
\* has returned, and nothing is called after a call that failed, except that
\* the calls on the stream follow a failed client.Store.
C14_StepOrder ==
  /\ Resolved <=> Len(Steps) > 0
  /\ Len(Steps) > 0 => Steps[1].op = "loadSigners"
  /\ \A op \in OncePerRun : Count(op) <= 1
  /\ Len(runCalls) = Count("witness.Run")
  /\ \A i \in 2..Len(Steps) : Steps[i - 1] \in ComesAfter(Steps[i].op)
  /\ pc = "done" \/ Len(Steps) = 0 \/ Steps[Len(Steps)].ok
       \/ Steps[Len(Steps)].op = "client.Store"

C14_Witness ==
  /\ pc = "done"
  /\ result = "ok"
  /\ rekorServer # ""
  /\ archivist.Server # ""
  /\ Len(frames) = 3
  /\ Len(Steps) = 15

\* ---- gating
ArchivistErrors == {Wrap("failed to store artifact in archivist", ErrNet)}

\* C15: the log step is entered only with a transparency-log endpoint
\* configured and the upload step only with an artifact-store endpoint
\* configured; a step that is not entered makes no call and the run does not
\* fail with an error of it.
C15_PublishingGated ==
  /\ rekorServer = "" =>
       /\ \A i \in DOMAIN trace : trace[i].op \notin LogOps
       /\ pc \notin {"Verifier", "Bytes", "rekorNew", "StoreArtifact"}
       /\ rekorReqs = <<>>
       /\ err \notin LogErrors
  /\ archivist.Server = "" =>
       /\ ~StoreAttempted
       /\ pc \notin {"Dial", "Store", "Send", "CloseAndRecv"}
       /\ stream = "unset" /\ frames = <<>>
       /\ err \notin ArchivistErrors
       /\ result # "panic"

C15_Witness ==
  /\ rekorServer # ""
  /\ archivist.Server = ""
  /\ Succeeded("rc.StoreArtifact")
  /\ pc = "done"
  /\ result = "ok"

\* ---- scope of the sink
Executing == pc = "Run"
Publishing == pc \in {"Verifier", "Bytes", "rekorNew", "StoreArtifact", "Dial",
                      "Store", "Send", "CloseAndRecv"}

\* C16 as stated: the sink is open only during the write: it is not open while
\* witness.Run executes and it is closed when a publishing step runs.
C16_SinkOnlyOpenForWrite ==
  /\ Executing => out.state # "open"
  /\ Publishing => out.state = "closed"

\* C16 amended: the sink is opened before witness.Run is called and is held
\* open through execution, serialization, the write and both publishing steps;
\* it is closed only when runRun exits.
C16_SinkOpenUntilExit ==
  /\ (Executing \/ Publishing \/ pc \in {"Marshal", "Write", "return"}) =>
       out.state = "open" /\ out.closes = 0
  /\ out.state = "closed" => pc = "done"

C16_Witness ==
  /\ pc = "Send"
  /\ Succeeded("rc.StoreArtifact")
  /\ Len(frames) = 1
  /\ out.state = "open"

\* C17: close-and-receive is performed at most once and only after all
\* ceil(L/65536) frames were sent successfully on the open stream, and it is
\* performed whenever they were; if it succeeds the upload returns the gitoid
\* of that response, if it fails the upload fails and returns no identifier.
C17_Finalization ==
  /\ Count("stream.CloseAndRecv") <= 1
  /\ Called("stream.CloseAndRecv") =>
       /\ stream = "open"
       /\ ~Failed("stream.Send")
       /\ CountOk("stream.Send") = CeilDiv(signedBytes, chunkSize)
       /\ Len(frames) = CeilDiv(signedBytes, chunkSize)
       /\ Steps[Len(Steps)].op = "stream.CloseAndRecv"
  /\ (stream = "open" /\ Len(frames) = CeilDiv(signedBytes, chunkSize)) =>
       pc = "CloseAndRecv" \/ Called("stream.CloseAndRecv")
  /\ Succeeded("stream.CloseAndRecv") =>
       /\ resp \in Gitoids /\ gitoid = resp
       /\ logged[Len(logged)] = <<"Stored in archivist as", resp>>
       /\ pc \in {"return", "done"}
       /\ pc = "done" => result = "ok"
  /\ Failed("stream.CloseAndRecv") =>
       /\ gitoid = "" /\ resp = ""
       /\ FailedWith(ErrSend)
  /\ ~Called("stream.CloseAndRecv") => gitoid = ""

C17_Witness ==
  /\ Succeeded("stream.CloseAndRecv")
  /\ signedBytes = chunkSize + 1
  /\ Len(frames) = 2
  /\ gitoid = "gitoid:blob:sha256:bb"
  /\ pc = "done"

\* C18: the envelope is serialized at most once per run, and what is written to
\* the sink, what is submitted to the transparency log and what is cut into
\* frames for the artifact store is that one byte sequence, whole and unchanged.
C18_SingleEnvelope ==
  /\ Count("json.Marshal") <= 1
  /\ Succeeded("json.Marshal") <=> signedBytes >= 0
  /\ Succeeded("out.Write") => out.content = <<Envelope>>
  /\ Succeeded("rc.StoreArtifact") <=> rekorReqs = <<Envelope>>
  /\ rekorReqs # <<>> => rekorReqs = out.content
  /\ frames # <<>> => Tiles(frames, Min(curr, signedBytes))
  /\ AllSent => Tiles(frames, signedBytes) /\ out.content = <<Envelope>>

C18_Witness ==
  /\ Succeeded("rc.StoreArtifact")
  /\ AllSent
  /\ signedBytes = chunkSize + 1
  /\ pc = "done"
  /\ result = "ok"

\* C19: with the artifact-store enable flag false no upload session is opened
\* and no frame is sent, whatever the endpoint; the upload is attempted only
\* with the flag set.
C19_EnableFlagGates ==
  ~archivist.Enable =>
    /\ ~StoreAttempted
    /\ pc \notin {"Dial", "Store", "Send", "CloseAndRecv"}
    /\ stream = "unset"
    /\ frames = <<>>

\* C20: if client.Store fails, storeInArchivist returns an error at once: no
\* frame is sent and close-and-receive is not performed on the unopened
\* session; a frame is only ever sent on a session that was opened.
C20_OpenFailureReturns ==
  /\ Failed("client.Store") =>
       /\ FailedWith(ErrSend)
       /\ Steps[Len(Steps)] = Ev("client.Store", FALSE)
       /\ frames = <<>>
  /\ Called("stream.Send") => Succeeded("client.Store")

====
